---------------------------- MODULE Spec2Model ----------------------------
(***************************************************************************)
(* Model of server.py: run() (bind, LAN address detection, banner, serve   *)
(* loop, shutdown) and DemoHandler (the 403 rule, the health rule, and the *)
(* inherited static-file handler of http.server it delegates to).          *)
(*                                                                         *)
(* Strings that are paths are kept as the list of their '/'-separated      *)
(* pieces, i.e. as str.split('/') returns them: "/private/" is             *)
(* <<"", "private", "">>, "//private" is <<"", "", "private">>.  A request *)
(* target is such a list plus a flag telling whether "?x" follows it.      *)
(* File-system paths are the list of names from the root.                  *)
(***************************************************************************)
EXTENDS Naturals, Sequences, FiniteSets

\* pc         where run() stands
\* host       the --host argument
\* lan_ip     run()'s local lan_ip ("" while unset)
\* lan_exc    what get_lan_ip() raised ("none" if it returned)
\* serve_exc  what httpd.serve_forever() raised ("none" so far)
\* effects    what the main thread did to the outside, in order: its prints
\*            to standard output and its server_close()
\* sock       the listening socket: "none", "listening", "closed"
\* exit       the process's exit status ("running" until it exits)
\* conn       the handler of each connection thread
VARIABLES pc, host, lan_ip, lan_exc, serve_exc, effects, sock, exit, conn

vars == <<pc, host, lan_ip, lan_exc, serve_exc, effects, sock, exit, conn>>

\* ------------------------------------------------------------- bounds
\* Longest request path, counted in pieces after the leading "/".
MaxSegs == 3

\* ------------------------------------------------- program constants
DefaultPort == 8000

Hosts == {"0.0.0.0", "127.0.0.1"}

\* The address get_lan_ip() returns when detection succeeds.
DetectedIp == "192.168.1.7"

\* Connection threads of ThreadingHTTPServer, one per client connection.
Threads == {"t1", "t2"}

ClientAddress(t) == IF t = "t1" THEN "10.0.0.5" ELSE "10.0.0.9"

\* ------------------------------------------------------- file system
\* BASE_DIR = dirname(__file__)/site, with server.py installed in /app.
BASE_DIR == <<"app", "site">>

Dirs ==
    { <<>>, <<"app">>, BASE_DIR,
      BASE_DIR \o <<"private">>,
      BASE_DIR \o <<"private", "docs">> }

\* Regular files.  /app/server.py, /app/secrets.txt and /secrets.txt lie
\* outside BASE_DIR.
Files ==
    { <<"app", "server.py">>,
      <<"app", "secrets.txt">>,
      <<"secrets.txt">>,
      BASE_DIR \o <<"index.html">>,
      BASE_DIR \o <<"health">>,
      BASE_DIR \o <<"private", "secrets.txt">> }

NoEnt == <<"<ENOENT>">>

\* The kernel's walk of an absolute path: "." stays, ".." goes up (the
\* root is its own parent), a name steps into a directory or onto a file.
RECURSIVE Walk(_, _)
Walk(cur, comps) ==
    IF comps = <<>> THEN cur
    ELSE IF cur \notin Dirs THEN NoEnt
    ELSE LET w == Head(comps) IN
         IF w = "." THEN Walk(cur, Tail(comps))
         ELSE IF w = ".."
              THEN Walk(IF cur = <<>> THEN cur ELSE SubSeq(cur, 1, Len(cur) - 1),
                        Tail(comps))
              ELSE IF (cur \o <<w>>) \in (Dirs \cup Files)
                   THEN Walk(cur \o <<w>>, Tail(comps))
                   ELSE NoEnt

\* os.path.isdir(p), os.path.isfile(p), open(p, 'rb') for an OS path
\* p = [comps, trailing]; a trailing slash is accepted on directories only.
IsDir(p) == Walk(<<>>, p.comps) \in Dirs

IsFile(p) == ~p.trailing /\ Walk(<<>>, p.comps) \in Files

\* The file object open() returns: the file's identity stands for its bytes.
Open(p) == Walk(<<>>, p.comps)

\* ------------------------------------------------------ request inputs
Pieces == {"", "private", "health", ".", "..", "secrets.txt", "docs", "%2e%2e"}

\* Origin-form request targets: "/" followed by up to MaxSegs pieces, with
\* or without the query string "?x".
Targets ==
    { [segs |-> <<"">> \o s, q |-> q] :
        s \in UNION { [1..n -> Pieces] : n \in 1..MaxSegs }, q \in BOOLEAN }

\* A request: method, target, and whether it carries an If-Modified-Since
\* header (without If-None-Match) that is not older than any served file.
Requests ==
    { [method |-> k[1], target |-> tg, ims |-> k[2]] :
        k \in { <<"GET", FALSE>>, <<"GET", TRUE>>, <<"HEAD", FALSE>>,
                <<"POST", FALSE>> },
        tg \in Targets }

\* The requests of the two-connection specification: GET, no query, at most
\* two pieces.
ConcRequests ==
    { r \in Requests :
        r.method = "GET" /\ ~r.ims /\ ~r.target.q /\ Len(r.target.segs) <= 3 }

HealthPath == [segs |-> <<"", "health">>, q |-> FALSE]

NoLocation == [segs |-> <<>>, q |-> FALSE]

\* ------------------------------------------------------ string helpers
\* s.startswith('/' * n)
StartsWithSlashes(p, n) == Len(p) > n /\ \A i \in 1..n : p[i] = ""

\* s.endswith('/')
EndsWithSlash(p) == Len(p) >= 2 /\ p[Len(p)] = ""

\* s.lstrip('/')
RECURSIVE LStripSlashes(_)
LStripSlashes(p) ==
    IF Len(p) > 1 /\ Head(p) = "" THEN LStripSlashes(Tail(p)) ELSE p

\* parse_request keeping the path in an attribute of the class, which the
\* connection threads share: a handler then reads the path of whichever
\* other request is being read at the time.
ParseRequestShared(target) ==
    LET others == { u \in Threads :
                      conn[u].st = "received" /\ conn[u].target # target }
    IN IF others # {}
       THEN conn[CHOOSE u \in others : TRUE].target
       ELSE target

\* BaseHTTPRequestHandler.parse_request: self.path is the request target,
\* with a run of leading slashes reduced to one (gh-87389).
ParseRequest(target) ==
    IF StartsWithSlashes(target.segs, 2)
    THEN [target EXCEPT !.segs = <<"">> \o LStripSlashes(target.segs)]
    ELSE target

\* re.fullmatch(r"/private/", self.path): the slash is not optional
FullMatchPrivateSlash(path) ==
    ~path.q /\ path.segs = <<"", "private", "">>

\* re.match(r"/private/?", self.path): anything that starts with /private
MatchPrivate(path) ==
    Len(path.segs) >= 2 /\ path.segs[1] = "" /\ path.segs[2] = "private"

\* re.fullmatch(r"/private/?", self.path)
FullMatchPrivate(path) ==
    /\ ~path.q
    /\ \/ path.segs = <<"", "private">>
       \/ path.segs = <<"", "private", "">>

\* urllib.parse.unquote, piece by piece
Unquote(w) == IF w = "%2e%2e" THEN ".." ELSE w

UnquotePath(p) == [i \in 1..Len(p) |-> Unquote(p[i])]

\* The loop of posixpath.normpath over comps, new_comps being built.
RECURSIVE NormComps(_, _, _)
NormComps(comps, new, initial) ==
    IF comps = <<>> THEN new
    ELSE LET c == Head(comps) IN
         IF c \in {"", "."} THEN NormComps(Tail(comps), new, initial)
         ELSE IF \/ c # ".."
                 \/ (initial = 0 /\ new = <<>>)
                 \/ (new # <<>> /\ new[Len(new)] = "..")
              THEN NormComps(Tail(comps), Append(new, c), initial)
              ELSE IF new # <<>>
                   THEN NormComps(Tail(comps), SubSeq(new, 1, Len(new) - 1), initial)
                   ELSE NormComps(Tail(comps), new, initial)

\* posixpath.normpath
NormPath(p) ==
    IF p = <<"">> THEN <<".">>
    ELSE LET initial == IF StartsWithSlashes(p, 2) /\ ~StartsWithSlashes(p, 3)
                        THEN 2
                        ELSE IF StartsWithSlashes(p, 1) THEN 1 ELSE 0
             comps == NormComps(p, <<>>, initial)
             joined == IF comps = <<>> THEN <<"">> ELSE comps
             res == [i \in 1..initial |-> ""] \o joined
         IN IF res = <<"">> THEN <<".">> ELSE res

\* The component loop of translate_path: empty words are filtered out and
\* "." and ".." are ignored.
RECURSIVE JoinWords(_, _)
JoinWords(path, words) ==
    IF words = <<>> THEN path
    ELSE LET w == Head(words) IN
         IF w = "" \/ w \in {".", ".."}
         THEN JoinWords(path, Tail(words))
         ELSE JoinWords(Append(path, w), Tail(words))

\* The same loop with the normalisation and the "." / ".." filter left out:
\* the request path is appended to the directory as it came.
TranslatePathNaive(path) ==
    [comps |-> BASE_DIR \o SelectSeq(UnquotePath(path.segs), LAMBDA w : w # ""),
     trailing |-> EndsWithSlash(path.segs)]

\* SimpleHTTPRequestHandler.translate_path with directory=BASE_DIR: the
\* query is dropped (path.segs is the part before '?').
TranslatePath(path) ==
    [comps |-> JoinWords(BASE_DIR, NormPath(UnquotePath(path.segs))),
     trailing |-> EndsWithSlash(path.segs)]

\* SimpleHTTPRequestHandler.guess_type, by the extension of the last name
GuessType(p) ==
    LET name == p.comps[Len(p.comps)] IN
    IF name = "index.html" THEN "text/html"
    ELSE IF name = "secrets.txt" THEN "text/plain"
    ELSE "application/octet-stream"


\* ------------------------------------------------------------ handler
\* A handler instance c: [st, ip, method, target, ims, path, resps, lines].
\* target is the request line's target, path is self.path.  resps are the
\* responses written to wfile (status line, headers, body), lines the lines
\* the handler printed to standard output, both in order.

Now == "log_date_time_string()"

\* log_message printing client_address[1], the port, for the address
LogMessagePort(c, message) == [ip |-> "51234", ts |-> Now, msg |-> message]

\* DemoHandler.log_message: "%s - - [%s] %s" of the client address, the
\* time and the formatted message.
LogMessage(c, message) == [ip |-> c.ip, ts |-> Now, msg |-> message]

\* log_request, called by send_response: '"%s" %s %s' of the request line,
\* the code and the size.
LogRequest(c, code) ==
    LogMessage(c, [kind |-> "request", method |-> c.method,
                   target |-> c.target, code |-> code, text |-> "-"])

\* log_error, called by send_error: "code %d, message %s".
LogError(c, code, message) ==
    LogMessage(c, [kind |-> "error", method |-> "", target |-> NoLocation,
                   code |-> code, text |-> message])

Response(code, ctype, body, location, by) ==
    [status |-> code, ctype |-> ctype, body |-> body, location |-> location,
     by |-> by]

\* send_response .. end_headers .. wfile.write of one response
Reply(c, resp) == [resps |-> <<resp>>, lines |-> <<LogRequest(c, resp.status)>>]

\* BaseHTTPRequestHandler.send_error: the error is logged, then the
\* response is sent with the error page as its body (none for HEAD).
SendError(c, code, message, by) ==
    [resps |-> << Response(code, "text/html;charset=utf-8",
                           IF c.method = "HEAD" THEN <<>>
                           ELSE <<"error page", message>>,
                           NoLocation, by) >>,
     lines |-> << LogError(c, code, message), LogRequest(c, code) >>]

\* SimpleHTTPRequestHandler.list_directory
ListDirectory(c, path) ==
    Reply(c, Response(200, "text/html; charset=utf-8",
                      <<"listing">> \o path.comps, NoLocation,
                      "SimpleHTTPRequestHandler"))

\* send_head from "ctype = self.guess_type(path)" on
SendFile(c, path) ==
    IF path.trailing \/ Open(path) \notin Files
    THEN SendError(c, 404, "File not found", "SimpleHTTPRequestHandler")
    ELSE IF c.ims
         THEN Reply(c, Response(304, "", <<>>, NoLocation,
                                "SimpleHTTPRequestHandler"))
         ELSE Reply(c, Response(200, GuessType(path),
                                <<"file">> \o Open(path), NoLocation,
                                "SimpleHTTPRequestHandler"))

\* SimpleHTTPRequestHandler.send_head; the body stands for the file object
\* it returns.
SendHead(c) ==
    LET path == TranslatePath(c.path)
        index == [comps |-> Append(path.comps, "index.html"), trailing |-> FALSE]
    IN IF IsDir(path)
       THEN IF ~EndsWithSlash(c.path.segs)
            THEN Reply(c, Response(301, "", <<>>,
                                   [c.path EXCEPT !.segs = Append(@, "")],
                                   "SimpleHTTPRequestHandler"))
            ELSE IF IsFile(index)
                 THEN SendFile(c, index)
                 ELSE ListDirectory(c, path)
       ELSE SendFile(c, path)

StripBody(out) ==
    [out EXCEPT !.resps = [i \in 1..Len(out.resps) |->
                              [out.resps[i] EXCEPT !.body = <<>>]]]

\* SimpleHTTPRequestHandler.do_GET: send_head, then copyfile
SuperDoGET(c) == SendHead(c)

\* SimpleHTTPRequestHandler.do_HEAD: send_head, the file is closed unread
DoHEAD(c) == StripBody(SendHead(c))

Forbidden ==
    Response(403, "text/plain; charset=utf-8",
             <<"403 Forbidden: Directory listing is disabled.">>,
             NoLocation, "DemoHandler")

HealthOk ==
    Response(200, "text/plain; charset=utf-8", <<"ok">>, NoLocation,
             "DemoHandler")

Concat(a, b) == [resps |-> a.resps \o b.resps, lines |-> a.lines \o b.lines]

\* do_GET without the health rule
DoGETNoHealth(c) ==
    IF FullMatchPrivate(c.path) THEN Reply(c, Forbidden)
    ELSE SuperDoGET(c)

\* do_GET without the return that ends the 403 rule
DoGETNoReturn(c) ==
    Concat(IF FullMatchPrivate(c.path) THEN Reply(c, Forbidden)
           ELSE [resps |-> <<>>, lines |-> <<>>],
           IF c.path = HealthPath THEN Reply(c, HealthOk)
           ELSE SuperDoGET(c))

\* do_GET with the health rule comparing the path without its query
DoGETHealthAnyQuery(c) ==
    IF FullMatchPrivate(c.path) THEN Reply(c, Forbidden)
    ELSE IF c.path.segs = HealthPath.segs THEN Reply(c, HealthOk)
    ELSE SuperDoGET(c)

\* DemoHandler.do_GET
DoGET(c) ==
    IF FullMatchPrivate(c.path) THEN Reply(c, Forbidden)
    ELSE IF c.path = HealthPath THEN Reply(c, HealthOk)
    ELSE SuperDoGET(c)

\* handle_one_request after parse_request: dispatch on 'do_' + command
Dispatch(c) ==
    IF c.method = "GET" THEN DoGET(c)
    ELSE IF c.method = "HEAD" THEN DoHEAD(c)
    ELSE SendError(c, 501, "Unsupported method", "BaseHTTPRequestHandler")

Idle(t) ==
    [st |-> "idle", ip |-> ClientAddress(t), method |-> "", target |-> NoLocation,
     ims |-> FALSE, path |-> NoLocation, resps |-> <<>>, lines |-> <<>>]


\* ---------------------------------------------------------------- run
StdoutLine(line) == [op |-> "print", arg |-> line]

ServerClose == [op |-> "server_close", arg |-> <<>>]

\* The four prints of the startup banner.
Banner(lan) ==
    << StdoutLine(<<"DirBuster Demo Server running on:">>),
       StdoutLine(<<"  http://", "127.0.0.1", DefaultPort>>),
       StdoutLine(<<"  http://", lan, DefaultPort, "  (LAN)">>),
       StdoutLine(<<"Press Ctrl+C to stop.", "">>) >>

\* "except socket.gaierror" around get_lan_ip()
ExceptGaierror(e) == e \in {"socket.gaierror"}

\* "except Exception" around serve_forever()
ExceptExceptionOnly(e) == e \in {"OSError"}

\* "except Exception" around get_lan_ip(): KeyboardInterrupt is a
\* BaseException only and passes through.
ExceptException(e) == e \in {"OSError"}

\* "except KeyboardInterrupt" around serve_forever()
ExceptKeyboardInterrupt(e) == e = "KeyboardInterrupt"

\* The finally clause of run(): server_close(), then the print.
FinallyClause == << ServerClose, StdoutLine(<<"Server stopped.">>) >>

Init ==
    /\ pc = "start"
    /\ host \in Hosts
    /\ lan_ip = ""
    /\ lan_exc = "none"
    /\ serve_exc = "none"
    /\ effects = <<>>
    /\ sock = "none"
    /\ exit = "running"
    /\ conn = [t \in Threads |-> Idle(t)]

\* ThreadingHTTPServer((host, port), DemoHandler): binds and listens, or
\* raises OSError (address in use, permission denied), which leaves run().
Bind ==
    /\ pc = "start"
    /\ \/ /\ sock' = "listening"
          /\ pc' = "detect"
          /\ exit' = exit
       \/ /\ sock' = sock
          /\ pc' = "exited"
          /\ exit' = "1"
    /\ UNCHANGED <<host, lan_ip, lan_exc, serve_exc, effects, conn>>

\* try: lan_ip = get_lan_ip() / except Exception: lan_ip = host
Detect ==
    /\ pc = "detect"
    /\ \E e \in {"none", "OSError", "KeyboardInterrupt"} :
          /\ lan_exc' = e
          /\ IF e = "none"
             THEN lan_ip' = DetectedIp /\ pc' = "banner" /\ exit' = exit
             ELSE IF ExceptException(e)
                  THEN lan_ip' = host /\ pc' = "banner" /\ exit' = exit
                  ELSE lan_ip' = lan_ip /\ pc' = "exited" /\ exit' = "1"
    /\ UNCHANGED <<host, serve_exc, effects, sock, conn>>

PrintBanner ==
    /\ pc = "banner"
    /\ effects' = effects \o Banner(lan_ip)
    /\ pc' = "serving"
    /\ UNCHANGED <<host, lan_ip, lan_exc, serve_exc, sock, exit, conn>>

\* serve_forever() accepts a connection and starts its thread; the thread
\* reads the request line and headers.
Accept(t, reqs) ==
    /\ pc = "serving"
    /\ sock = "listening"
    /\ conn[t].st = "idle"
    /\ \E r \in reqs :
          conn' = [conn EXCEPT ![t] =
                     [Idle(t) EXCEPT !.st = "received", !.method = r.method,
                                     !.target = r.target, !.ims = r.ims]]
    /\ UNCHANGED <<pc, host, lan_ip, lan_exc, serve_exc, effects, sock, exit>>

\* handle_one_request: parse_request, then the do_<command> method.  The
\* daemon thread runs until the process exits.
Handle(t) ==
    /\ pc \in {"serving", "finally"}
    /\ conn[t].st = "received"
    /\ LET c == [conn[t] EXCEPT !.path = ParseRequest(conn[t].target)]
           out == Dispatch(c)
       IN conn' = [conn EXCEPT ![t] =
                     [c EXCEPT !.st = "responded", !.resps = out.resps,
                               !.lines = out.lines]]
    /\ UNCHANGED <<pc, host, lan_ip, lan_exc, serve_exc, effects, sock, exit>>

\* The connection is closed and its thread ends.
Finish(t) ==
    /\ pc \in {"serving", "finally"}
    /\ conn[t].st = "responded"
    /\ conn' = [conn EXCEPT ![t] = Idle(t)]
    /\ UNCHANGED <<pc, host, lan_ip, lan_exc, serve_exc, effects, sock, exit>>

\* serve_forever() raises: KeyboardInterrupt on Ctrl+C, or an OSError of
\* the selector.
ServeRaise ==
    /\ pc = "serving"
    /\ \E e \in {"KeyboardInterrupt", "OSError"} : serve_exc' = e
    /\ pc' = "finally"
    /\ UNCHANGED <<host, lan_ip, lan_exc, effects, sock, exit, conn>>

\* except KeyboardInterrupt: pass / finally: server_close(), print; then
\* run() returns and the process exits 0, or the exception leaves run() and
\* the process exits 1.  Daemon threads end with the process.
Finally ==
    /\ pc = "finally"
    /\ effects' = effects \o FinallyClause
    /\ sock' = IF \E i \in 1..Len(FinallyClause) : FinallyClause[i] = ServerClose
               THEN "closed" ELSE sock
    /\ exit' = IF ExceptKeyboardInterrupt(serve_exc) THEN "0" ELSE "1"
    /\ pc' = "exited"
    /\ conn' = [t \in Threads |-> Idle(t)]
    /\ UNCHANGED <<host, lan_ip, lan_exc, serve_exc>>

Main == Bind \/ Detect \/ PrintBanner \/ ServeRaise \/ Finally

\* One connection at a time, any request.
Next ==
    \/ Main
    \/ Accept("t1", Requests)
    \/ Handle("t1")
    \/ Finish("t1")

Spec == Init /\ [][Next]_vars

\* Two connections served concurrently.
NextConc ==
    \/ Main
    \/ \E t \in Threads : Accept(t, ConcRequests)
    \/ \E t \in Threads : Handle(t)
    \/ \E t \in Threads : Finish(t)

SpecConc == Init /\ [][NextConc]_vars


\* -------------------------------------------------------------- claims
Responded(t) == conn[t].st = "responded"

IsGet(c) == c.method = "GET"

PrivatePath == [segs |-> <<"", "private">>, q |-> FALSE]

PrivateSlashPath == [segs |-> <<"", "private", "">>, q |-> FALSE]

\* The response the 403 rule writes, spelled out.
ForbiddenResponse ==
    [status |-> 403, ctype |-> "text/plain; charset=utf-8",
     body |-> <<"403 Forbidden: Directory listing is disabled.">>,
     location |-> NoLocation, by |-> "DemoHandler"]

\* The response the health rule writes, spelled out.
HealthResponse ==
    [status |-> 200, ctype |-> "text/plain; charset=utf-8", body |-> <<"ok">>,
     location |-> NoLocation, by |-> "DemoHandler"]

\* C1: a GET request whose path is exactly /private or /private/ is answered
\* with the 403 response (status, content type, fixed body) and with nothing
\* else: static file serving writes no response for it.
C1_PrivateForbidden ==
    \A t \in Threads :
        (Responded(t) /\ IsGet(conn[t])
            /\ conn[t].path \in {PrivatePath, PrivateSlashPath})
        => conn[t].resps = <<ForbiddenResponse>>

C1_Witness ==
    \E t \in Threads :
        /\ Responded(t) /\ IsGet(conn[t])
        /\ conn[t].target = PrivatePath
        /\ conn[t].resps[1].status = 403

\* C2: a GET request whose path is exactly /health is answered with status
\* 200, content type text/plain; charset=utf-8 and the body "ok", although
\* a file named health exists under the base directory.
C2_HealthOk ==
    \A t \in Threads :
        (Responded(t) /\ IsGet(conn[t]) /\ conn[t].path = HealthPath)
        => conn[t].resps = <<HealthResponse>>

C2_Witness ==
    /\ (BASE_DIR \o <<"health">>) \in Files
    /\ \E t \in Threads :
          /\ Responded(t) /\ IsGet(conn[t])
          /\ conn[t].target = HealthPath
          /\ conn[t].resps[1].body = <<"ok">>

\* A GET request for /private/<nonempty-segment>, with or without a query.
IsPrivateChild(c) ==
    /\ IsGet(c)
    /\ Len(c.target.segs) = 3
    /\ c.target.segs[1] = "" /\ c.target.segs[2] = "private"
    /\ c.target.segs[3] # ""

\* C3 as stated: a GET request for /private/<nonempty-segment> (taken
\* without a query, without If-Modified-Since, and with a segment that is a
\* plain name, not a dot-segment) is not answered by the 403 rule; it gets 200 with the file's contents if a file exists under the
\* base directory at private/<segment>, and the not-found response otherwise.
C3_Original ==
    \A t \in Threads :
        LET c == conn[t]
            f == BASE_DIR \o <<"private", c.target.segs[3]>>
        IN (Responded(t) /\ IsPrivateChild(c) /\ ~c.target.q /\ ~c.ims
               /\ c.target.segs[3] \notin {".", "..", "%2e%2e"})
           => /\ Len(c.resps) = 1
              /\ c.resps[1].by # "DemoHandler"
              /\ IF f \in Files
                 THEN c.resps[1].status = 200 /\ c.resps[1].body = <<"file">> \o f
                 ELSE c.resps[1].status = 404

\* What /private/<segment> names once percent-decoded and dot-normalised.
PrivateChildEntry(seg) ==
    IF seg \in {"..", "%2e%2e"} THEN BASE_DIR
    ELSE IF seg = "." THEN BASE_DIR \o <<"private">>
    ELSE BASE_DIR \o <<"private", seg>>

\* C3 (amended): a GET request for /private/<nonempty-segment> is not
\* answered by the 403 rule.  If the segment names a regular file under
\* private/ the response is 200 with the file's contents (304 without a body
\* for an If-Modified-Since that is not older than the file); if it names a
\* directory (a subdirectory, or "." or ".." also percent-encoded) the
\* response is a 301 redirect to the same target with "/" appended to its
\* path; otherwise it is the not-found response.
C3_PrivateChildStatic ==
    \A t \in Threads :
        LET c == conn[t]
            e == PrivateChildEntry(c.target.segs[3])
            r == c.resps[1]
        IN (Responded(t) /\ IsPrivateChild(c))
           => /\ Len(c.resps) = 1
              /\ r.by = "SimpleHTTPRequestHandler"
              /\ IF e \in Files
                 THEN IF c.ims
                      THEN r.status = 304 /\ r.body = <<>>
                      ELSE r.status = 200 /\ r.body = <<"file">> \o e
                 ELSE IF e \in Dirs
                      THEN /\ r.status = 301 /\ r.body = <<>>
                           /\ r.location = [segs |-> c.target.segs \o <<"">>,
                                            q |-> c.target.q]
                      ELSE r.status = 404 /\ r.body = <<"error page", "File not found">>

C3_Witness ==
    \E t \in Threads :
        /\ Responded(t) /\ IsPrivateChild(conn[t])
        /\ conn[t].target.segs[3] = "secrets.txt"
        /\ conn[t].resps[1].status = 200
        /\ conn[t].resps[1].body = <<"file", "app", "site", "private", "secrets.txt">>

\* C4: every GET request is answered with exactly one response (one status
\* line with its headers and body), whichever rule answers it; a canned
\* response is never followed by a static one.
C4_OneResponse ==
    \A t \in Threads :
        (Responded(t) /\ IsGet(conn[t])) => Len(conn[t].resps) = 1

C4_Witness ==
    \E t \in Threads :
        /\ Responded(t) /\ IsGet(conn[t])
        /\ conn[t].path = PrivateSlashPath
        /\ Len(conn[t].resps) = 1
        /\ conn[t].resps[1].by = "DemoHandler"

\* A log line carrying the client address, the time and the request
\* summary (request line and status) of c's response.
IsRequestLine(t, line) ==
    /\ line.ip = ClientAddress(t)
    /\ line.ts = Now
    /\ line.msg.kind = "request"
    /\ line.msg.method = conn[t].method
    /\ line.msg.target = conn[t].target
    /\ line.msg.code = conn[t].resps[Len(conn[t].resps)].status

\* C5 as stated: every request produces one log line, with the client
\* address, the time and the request summary, whichever rule answered it.
C5_Original ==
    \A t \in Threads :
        Responded(t)
        => Len(conn[t].lines) = 1 /\ IsRequestLine(t, conn[t].lines[1])

\* C5 (amended): every request is logged with the client address and the
\* time on each line; the last line is the request summary, and it is the
\* only line unless the response is an error sent by send_error (not found,
\* unsupported method), which prints one more line before it: the error's
\* code and message.
C5_Logged ==
    \A t \in Threads :
        LET c == conn[t]
            n == Len(c.lines)
        IN Responded(t)
           => /\ n >= 1
              /\ IsRequestLine(t, c.lines[n])
              /\ \A i \in 1..n : c.lines[i].ip = ClientAddress(t) /\ c.lines[i].ts = Now
              /\ IF c.resps[1].status \in {404, 501}
                 THEN /\ n = 2
                      /\ c.lines[1].msg.kind = "error"
                      /\ c.lines[1].msg.code = c.resps[1].status
                 ELSE n = 1

C5_Witness ==
    \E t \in Threads :
        /\ Responded(t) /\ IsGet(conn[t])
        /\ conn[t].resps[1].status = 404
        /\ Len(conn[t].lines) = 2
        /\ IsRequestLine(t, conn[t].lines[2])


\* The names left of a request path once it is percent-decoded and its
\* "", "." and ".." pieces are resolved, ".." at the root staying there.
RECURSIVE Clamp(_, _)
Clamp(done, rest) ==
    IF rest = <<>> THEN done
    ELSE LET w == IF Head(rest) = "%2e%2e" THEN ".." ELSE Head(rest) IN
         IF w \in {"", "."} THEN Clamp(done, Tail(rest))
         ELSE IF w = ".."
              THEN Clamp(IF done = <<>> THEN done ELSE SubSeq(done, 1, Len(done) - 1),
                         Tail(rest))
              ELSE Clamp(Append(done, w), Tail(rest))

\* The ".." pieces of the path climb above the directory it is joined to.
RECURSIVE Climbs(_, _)
Climbs(depth, rest) ==
    IF rest = <<>> THEN FALSE
    ELSE LET w == IF Head(rest) = "%2e%2e" THEN ".." ELSE Head(rest) IN
         IF w \in {"", "."} THEN Climbs(depth, Tail(rest))
         ELSE IF w = ".."
              THEN depth = 0 \/ Climbs(depth - 1, Tail(rest))
              ELSE Climbs(depth + 1, Tail(rest))

IsStatic(c) ==
    /\ c.method \in {"GET", "HEAD"}
    /\ \A i \in 1..Len(c.resps) : c.resps[i].by = "SimpleHTTPRequestHandler"

ServesContent(r) == r.body # <<>> /\ r.body[1] \in {"file", "listing"}

ContentInsideBase(r) ==
    LET f == Tail(r.body) IN
    Len(f) >= Len(BASE_DIR) /\ SubSeq(f, 1, Len(BASE_DIR)) = BASE_DIR

\* C6 as stated: a response of static serving never carries the content of
\* a file outside the base directory, and a request whose ".." pieces climb
\* above the base directory is rejected (taken here as: it is not answered
\* with a 200).
C6_Original ==
    \A t \in Threads :
        LET c == conn[t] IN
        (Responded(t) /\ IsStatic(c))
        => /\ \A i \in 1..Len(c.resps) :
                 ServesContent(c.resps[i]) => ContentInsideBase(c.resps[i])
           /\ Climbs(0, c.path.segs) => c.resps[1].status # 200

\* C6 (amended): a response of static serving never carries the content of
\* a file or the listing of a directory outside the base directory.  ".."
\* pieces that climb above the base directory are dropped, and the request
\* is answered as the one for the remaining path: when it serves a file, it
\* is the file of that name under the base directory (or the index.html of
\* that directory), and it is the not-found response when nothing of that
\* name exists there.
C6_NoEscape ==
    \A t \in Threads :
        LET c == conn[t]
            e == BASE_DIR \o Clamp(<<>>, c.path.segs)
        IN (Responded(t) /\ IsStatic(c))
           => /\ \A i \in 1..Len(c.resps) :
                    ServesContent(c.resps[i]) => ContentInsideBase(c.resps[i])
              /\ (c.method = "GET" /\ c.resps[1].status = 200
                      /\ c.resps[1].body[1] = "file")
                 => Tail(c.resps[1].body) \in {e, e \o <<"index.html">>}
              /\ (e \notin (Files \cup Dirs)) => c.resps[1].status = 404

C6_Witness ==
    \E t \in Threads :
        /\ Responded(t) /\ IsGet(conn[t])
        /\ conn[t].target.segs = <<"", "..", "secrets.txt">>
        /\ <<"app", "secrets.txt">> \in Files
        /\ conn[t].resps[1].status = 404

C8_GracefulShutdown ==
    (pc = "exited" /\ serve_exc = "KeyboardInterrupt")
    => /\ sock = "closed"
       /\ ~ENABLED Accept("t1", Requests)
       /\ Len(effects) >= 2
       /\ effects[Len(effects) - 1] = [op |-> "server_close", arg |-> <<>>]
       /\ effects[Len(effects)] = [op |-> "print", arg |-> <<"Server stopped.">>]
       /\ exit = "0"

C8_Witness == pc = "exited" /\ serve_exc = "KeyboardInterrupt" /\ exit = "0"

\* C9: when get_lan_ip() raised an exception, lan_ip is the configured
\* host, the process did not exit before the serve loop, the banner printed
\* shows the host on its LAN line, and the serve loop runs on the socket
\* bound before.
C9_LanFallback ==
    lan_exc = "OSError"
    => /\ lan_ip = host
       /\ pc \in {"banner", "serving", "finally", "exited"}
       /\ pc = "banner" => exit = "running" /\ sock = "listening"
       /\ pc = "serving" => exit = "running" /\ sock = "listening"
       /\ pc = "exited" => serve_exc # "none"
       /\ pc \in {"serving", "finally", "exited"}
          => /\ Len(effects) >= 4
             /\ effects[2] = [op |-> "print",
                              arg |-> <<"  http://", "127.0.0.1", DefaultPort>>]
             /\ effects[3] = [op |-> "print",
                              arg |-> <<"  http://", host, DefaultPort, "  (LAN)">>]

C9_Witness ==
    /\ lan_exc = "OSError"
    /\ pc = "serving"
    /\ \E t \in Threads : Responded(t) /\ conn[t].resps[1].status = 200

CannedTargets == {PrivatePath, PrivateSlashPath, HealthPath}

IsCanned(c) == \E i \in 1..Len(c.resps) : c.resps[i].by = "DemoHandler"

\* The target with its run of leading slashes reduced to a single one.
OneLeadingSlash(target) ==
    LET s == target.segs
        k == CHOOSE k \in 1..Len(s) :
                 /\ \A i \in 1..k : s[i] = ""
                 /\ (k = Len(s) \/ s[k + 1] # "")
    IN IF k = Len(s) THEN [target EXCEPT !.segs = <<"", "">>]
       ELSE [target EXCEPT !.segs = <<"">> \o SubSeq(s, k + 1, Len(s))]

\* C10 as stated: a canned response is produced only for a GET request
\* whose raw request target is exactly /private, /private/ or /health.
C10_Original ==
    \A t \in Threads :
        (Responded(t) /\ IsCanned(conn[t]))
        => IsGet(conn[t]) /\ conn[t].target \in CannedTargets

\* C10 (amended): a canned response is produced exactly for the GET requests
\* whose target, query included, with a run of leading slashes reduced to
\* one, is /private, /private/ or /health; every other request is answered
\* by inherited code alone, and not with a canned body.
C10_CannedOnlyExact ==
    \A t \in Threads :
        LET c == conn[t] IN
        Responded(t)
        => /\ IsCanned(c) <=> (IsGet(c) /\ OneLeadingSlash(c.target) \in CannedTargets)
           /\ ~IsCanned(c)
              => \A i \in 1..Len(c.resps) :
                    /\ c.resps[i].by \in {"SimpleHTTPRequestHandler",
                                          "BaseHTTPRequestHandler"}
                    /\ c.resps[i].body \notin
                          {<<"ok">>, <<"403 Forbidden: Directory listing is disabled.">>}

C10_Witness ==
    \E t \in Threads :
        /\ Responded(t) /\ IsGet(conn[t])
        /\ conn[t].target = [segs |-> <<"", "private">>, q |-> TRUE]
        /\ ~IsCanned(conn[t])
        /\ conn[t].resps[1].status = 301

=============================================================================
